---- MODULE Spec2Model ----
(***************************************************************************)
(* Batch image conversion server (src/server.js, disk-backed variant).     *)
(*                                                                         *)
(* The server is one Node.js process: every handler runs on the event loop *)
(* and is atomic between two awaits.  An action of this module is one such *)
(* atomic segment: the synchronous head of a handler, or the continuation  *)
(* that runs when an awaited operation (sharp's toFile, fs unlink, a read  *)
(* stream) settles.  Requests arrive in some order and are numbered in the *)
(* order their handlers start.                                             *)
(*                                                                         *)
(* File names are sequences of dot-separated segments: "a.png" is          *)
(* <<"a", "png">>.  An optional query parameter is <<>> (absent) or <<v>>. *)
(* The uuid-named processed file written for item i of request r is the    *)
(* pair <<r, i>>; null is <<>>.                                            *)
(***************************************************************************)
EXTENDS Naturals, Sequences, FiniteSets

\* ---------------------------------------------------------------- bounds
\* Requests handled in one run, /compress requests among them, files per upload.
MaxRequests == 3
MaxBatches == 2
MaxFiles == 2
\* Characters in a quality query parameter.
MaxQualityLen == 3
\* Requests handled in one run under the fairness conditions.
MaxLiveRequests == 2
\* Requests handled in one run of the /convert variant.
MaxConvertRequests == 2
\* Requests handled in one run of the variant that keeps the outputs in memory.
MaxMemRequests == 3
\* Requests handled in one run of the variant whose /compress answers a ZIP.
MaxZipRequests == 2

\* ---------------------------------------------------------------- inputs
\* The format query parameter: absent, supported, unsupported.
Formats == { <<>>, <<"webp">>, <<"bogus">> }
\* The names a download asks for.
DownloadNames == { <<"a", "webp">>, <<"b", "webp">>, <<"constructor">> }
\* The orders uploaded files come in; an upload is a prefix of one of them.
UploadOrders ==
    { << <<"a", "png">>, <<"a", "jpg">>, <<"b", "png">>, <<"c", "png">> >>,
      << <<"b", "png">>, <<"a", "png">>, <<"c", "png">>, <<"a", "jpg">> >> }

Null == <<>>

VARIABLES
    processedImages,    \* the object mapping output file names to processed files
    requests,           \* the requests handled so far, in the order their handlers started
    tempProcessedDir,   \* the processed files on disk
    tempUploadDir,      \* the uploaded files on disk
    evicted             \* history: the processed files whose entry has left processedImages

vars == <<processedImages, requests, tempProcessedDir, tempUploadDir, evicted>>

\* ------------------------------------------------------- string helpers
\* A toLowerCase that leaves its argument as it is.
ToLowerCaseOmitted(s) == s

\* String.prototype.toLowerCase on the tokens the model uses.
ToLowerCase(s) ==
    CASE s = "PNG" -> "png"
      [] s = "Png" -> "png"
      [] s = "WEBP" -> "webp"
      [] s = "JPG" -> "jpg"
      [] s = "JPEG" -> "jpeg"
      [] s = "AVIF" -> "avif"
      [] s = "JXL" -> "jxl"
      [] s = "GIF" -> "gif"
      [] OTHER -> s

\* path.parse(originalname).name: the name without its last extension.
PathParseName(originalname) ==
    IF Len(originalname) > 1
    THEN SubSeq(originalname, 1, Len(originalname) - 1)
    ELSE originalname

\* How a template string renders the format parameter (undefined when absent).
TemplateString(format) == IF format = <<>> THEN "undefined" ELSE format[1]

\* `${name}.${format}`
OutputFilename(originalname, format) ==
    Append(PathParseName(originalname), TemplateString(format))

supportedFormats == { "jpeg", "png", "webp", "avif", "jxl" }

\* ------------------------------------------------- the processedImages object
\* A JS object with string keys: a sequence of [key, value] in insertion order.
Keys(obj) == { obj[k].key : k \in 1..Len(obj) }

HasKey(obj, key) == \E k \in 1..Len(obj) : obj[k].key = key

Values(obj) == { obj[k].value : k \in 1..Len(obj) }

\* The properties an object literal inherits from Object.prototype, among the
\* names the model uses.
ObjectPrototype == { <<"constructor">> }

\* The value of an inherited property: a function, truthy and no path of a file.
InheritedFunction == <<0, 0>>

\* obj[key]: the own property, else the property inherited from
\* Object.prototype, else undefined (Null, falsy).
Lookup(obj, key) ==
    IF HasKey(obj, key)
    THEN obj[CHOOSE k \in 1..Len(obj) : obj[k].key = key].value
    ELSE IF key \in ObjectPrototype THEN InheritedFunction
    ELSE Null

\* An assignment that puts a new key before the others.
AssignNewKeyFirst(obj, key, value) ==
    IF HasKey(obj, key)
    THEN [k \in 1..Len(obj) |->
            IF obj[k].key = key THEN [key |-> key, value |-> value] ELSE obj[k]]
    ELSE <<[key |-> key, value |-> value]>> \o obj

\* An assignment that leaves the value of an existing key alone.
AssignFirstWins(obj, key, value) ==
    IF HasKey(obj, key) THEN obj ELSE Append(obj, [key |-> key, value |-> value])

\* obj[key] = value: an existing key keeps its position, a new key goes last.
Assign(obj, key, value) ==
    IF HasKey(obj, key)
    THEN [k \in 1..Len(obj) |->
            IF obj[k].key = key THEN [key |-> key, value |-> value] ELSE obj[k]]
    ELSE Append(obj, [key |-> key, value |-> value])

\* A delete that takes every entry with it.
DeleteEveryKey(obj, key) == <<>>

RECURSIVE DeleteKey(_, _)
\* delete obj[key]
DeleteKey(obj, key) ==
    IF obj = <<>> THEN <<>>
    ELSE IF Head(obj).key = key THEN Tail(obj)
    ELSE <<Head(obj)>> \o DeleteKey(Tail(obj), key)

\* A clear loop that stops after the first key.
ClearLoopFirstKeyOnly(obj) == IF obj = <<>> THEN obj ELSE Tail(obj)

\* A clear loop that is cut short before the last key.
ClearLoopAllButLast(obj) == IF Len(obj) <= 1 THEN <<>> ELSE <<obj[Len(obj)]>>

\* No clear loop at all.
ClearLoopSkipped(obj) == obj

RECURSIVE ClearLoop(_)
\* for (const key in processedImages) delete processedImages[key];
ClearLoop(obj) ==
    IF obj = <<>> THEN obj ELSE ClearLoop(DeleteKey(obj, Head(obj).key))

\* ------------------------------------------------ POST /compress, per file
FileSizes == { 100 }
InfoSizes == { 40 }

\* err.message of the TypeError thrown by format.toLowerCase() on undefined.
TypeErrorMessage == <<"Cannot read properties of undefined (reading 'toLowerCase')">>

\* err.message of an error sharp rejects toFile with.
CodecMessages == { <<"Input file contains unsupported image format">> }

\* `Unsupported format: ${format}`
UnsupportedMessage(format) == <<"Unsupported format: ", TemplateString(format)>>

\* The locals of one per-file task as declared before its try block (codec and
\* unlinkCalls record what the task has called so far).
NewItem(file, format) ==
    [ originalname |-> file.originalname,
      originalSize |-> file.size,
      outputFilename |-> OutputFilename(file.originalname, format),
      status |-> "Error",
      compressedSize |-> 0,
      errorMessage |-> Null,
      tempProcessedFilePath |-> Null,
      codec |-> "none",
      unlinkCalls |-> 0,
      pc |-> "start" ]

\* A catch block with no finally block behind it: the task returns at once.
CatchWithoutFinally(item, message) ==
    [item EXCEPT !.status = "Error", !.errorMessage = message, !.pc = "done"]

\* catch (err): status = "Error", errorMessage = err.message; then the finally
\* block awaits the unlink of the uploaded file.
Catch(item, message) ==
    [item EXCEPT !.status = "Error", !.errorMessage = message, !.pc = "unlink"]

\* The synchronous head of the task of file i of request r, up to its first await.
ItemHead(r, i, file, format) ==
    LET item == NewItem(file, format) IN
    IF format = <<>>
    THEN Catch(item, TypeErrorMessage)
    ELSE IF ToLowerCase(format[1]) \in supportedFormats
    THEN [item EXCEPT !.tempProcessedFilePath = <<r, i>>, !.pc = "toFile"]
    ELSE [item EXCEPT !.status = "Unsupported Format",
                      !.errorMessage = UnsupportedMessage(format),
                      !.pc = "unlink"]

\* The continuation after `await converted.toFile(...)` resolved with info.
ToFileResolved(item, size) ==
    [item EXCEPT !.compressedSize = size, !.status = "Complete",
                 !.codec = "ok", !.pc = "unlink"]

\* toFile rejected with no catch block around it: the task itself rejects.
ToFileRejectedUncaught(item, message) ==
    [item EXCEPT !.codec = "fail", !.pc = "rejected"]

\* A catch block that records the status but not err.message.
ToFileRejectedNoMessage(item, message) ==
    [item EXCEPT !.codec = "fail", !.status = "Error", !.pc = "unlink"]

\* toFile rejected: control goes to the catch block.
ToFileRejected(item, message) ==
    Catch([item EXCEPT !.codec = "fail"], message)

\* An unlink of the uploaded file without its own try/catch: a failed unlink
\* makes the task reject.
UnlinkSettledUncaught(item, ok) ==
    [item EXCEPT !.pc = IF ok THEN "done" ELSE "rejected", !.unlinkCalls = @ + 1]

\* The inner try/catch around the unlink of the uploaded file swallows its
\* failure; the task then returns its result object.
UnlinkSettled(item, ok) == [item EXCEPT !.pc = "done", !.unlinkCalls = @ + 1]

\* The result object a task returns.
Result(item) ==
    [ name |-> item.originalname,
      outputFilename |-> item.outputFilename,
      originalSize |-> item.originalSize,
      compressedSize |-> item.compressedSize,
      status |-> item.status,
      errorMessage |-> item.errorMessage ]

\* A join that reports only the items that were converted.
PromiseAllSkipFailed(items) ==
    IF \A i \in 1..Len(items) : items[i].pc = "done"
    THEN [state |-> "fulfilled",
          value |-> SelectSeq([i \in 1..Len(items) |-> Result(items[i])],
                              LAMBDA res : res.status = "Complete")]
    ELSE [state |-> "pending", value |-> <<>>]

\* A join that is fulfilled as soon as one task has returned.
PromiseAllFirstSettled(items) ==
    IF \E i \in 1..Len(items) : items[i].pc = "done"
    THEN [state |-> "fulfilled",
          value |-> [i \in 1..Len(items) |-> Result(items[i])]]
    ELSE [state |-> "pending", value |-> <<>>]

\* Promise.all(processingPromises): rejects as soon as one task rejects, and is
\* fulfilled with the results in input order once every task has returned.
PromiseAll(items) ==
    IF \E i \in 1..Len(items) : items[i].pc = "rejected"
    THEN [state |-> "rejected", value |-> <<>>]
    ELSE IF \A i \in 1..Len(items) : items[i].pc = "done"
    THEN [state |-> "fulfilled",
          value |-> [i \in 1..Len(items) |-> Result(items[i])]]
    ELSE [state |-> "pending", value |-> <<>>]

\* A store write keyed by the uploaded file's name instead of the output name.
StoreWriteByOriginalName(obj, item) ==
    Assign(obj, item.originalname, item.tempProcessedFilePath)

\* processedImages[outputFilename] = tempProcessedFilePath
StoreWrite(obj, item) ==
    Assign(obj, item.outputFilename, item.tempProcessedFilePath)

\* A handler that never sends its response.
JoinWithoutResponse(req) == req

\* `const results = await Promise.all(...); res.json(results);` runs in the same
\* turn of the event loop as the settling of the last task.
Join(req) ==
    LET all == PromiseAll(req.items) IN
    IF req.phase # "running" THEN req
    ELSE IF all.state = "fulfilled"
    THEN [req EXCEPT !.phase = "responded", !.statusCode = 200, !.body = all.value]
    ELSE IF all.state = "rejected"
    THEN [req EXCEPT !.phase = "rejected"]
    ELSE req

\* ------------------------------------------------ GET /download/:filename
\* path.extname(filename).toLowerCase(), without the leading dot.
ExtName(filename) ==
    IF Len(filename) > 1 THEN ToLowerCase(filename[Len(filename)]) ELSE ""

ContentType(filename) ==
    LET ext == ExtName(filename) IN
    CASE ext = "jpeg" \/ ext = "jpg" -> "image/jpeg"
      [] ext = "png" -> "image/png"
      [] ext = "webp" -> "image/webp"
      [] ext = "avif" -> "image/avif"
      [] ext = "jxl" -> "image/jxl"
      [] OTHER -> "application/octet-stream"

\* ---------------------------------------------------------------- state
Init ==
    /\ processedImages = <<>>
    /\ requests = <<>>
    /\ tempProcessedDir = {}
    /\ tempUploadDir = {}
    /\ evicted = {}

IsCompress(r) == r \in 1..Len(requests) /\ requests[r].kind = "compress"
IsDownload(r) == r \in 1..Len(requests) /\ requests[r].kind = "download"
IsZip(r) == r \in 1..Len(requests) /\ requests[r].kind = "zip"

\* The upload lists multer hands the handler: at most MaxFiles files.
Uploads ==
    { [i \in 1..n |-> [originalname |-> o[i], size |-> s]] :
        n \in 0..MaxFiles, o \in UploadOrders, s \in FileSizes }

NumBatches == Cardinality({ q \in 1..Len(requests) : requests[q].kind = "compress" })

\* The requests that are not over: /compress requests suspended at their
\* Promise.all, downloads that are streaming or unlinking.
Unfinished ==
    { q \in 1..Len(requests) :
        \/ IsCompress(q) /\ requests[q].phase = "running"
        \/ IsDownload(q) /\ requests[q].pc \in { "streaming", "unlinking" } }

\* The /compress requests whose handler is suspended at its Promise.all.
InFlight == { q \in 1..Len(requests) : IsCompress(q) /\ requests[q].phase = "running" }

\* ---------------------------------------------------------------- actions
\* The handler of POST /compress up to its first await: the clear loop, the
\* empty check, and the synchronous head of every per-file task.  The record
\* of the request keeps, as history, the requests in flight when it started.
CompressStart(files, format) ==
    /\ Len(requests) < MaxRequests
    /\ NumBatches < MaxBatches
    /\ processedImages' = ClearLoop(processedImages)
    /\ evicted' = evicted \cup (Values(processedImages) \ Values(ClearLoop(processedImages)))
    /\ UNCHANGED tempProcessedDir
    /\ LET r == Len(requests) + 1 IN
       IF Len(files) = 0
       THEN /\ requests' = Append(requests,
                 [ kind |-> "compress", files |-> files, format |-> Null,
                   inFlight |-> InFlight,
                   items |-> <<>>, phase |-> "responded", statusCode |-> 400,
                   body |-> <<[error |-> "No files uploaded."]>> ])
            /\ UNCHANGED tempUploadDir
       ELSE /\ requests' = Append(requests,
                 [ kind |-> "compress", files |-> files, format |-> format,
                   inFlight |-> InFlight,
                   items |-> [i \in 1..Len(files) |-> ItemHead(r, i, files[i], format)],
                   phase |-> "running", statusCode |-> 0, body |-> <<>> ])
            /\ tempUploadDir' = tempUploadDir \cup { <<r, i>> : i \in 1..Len(files) }

\* sharp finished writing the processed file of item i of request r.
ToFileOk(r, i) ==
    /\ IsCompress(r)
    /\ i \in 1..Len(requests[r].items)
    /\ requests[r].items[i].pc = "toFile"
    /\ \E size \in InfoSizes :
         LET item == requests[r].items[i] IN
         /\ tempProcessedDir' = tempProcessedDir \cup { item.tempProcessedFilePath }
         /\ processedImages' = StoreWrite(processedImages, item)
         /\ evicted' = evicted \cup
              (Values(processedImages) \ Values(processedImages'))
         /\ requests' = [requests EXCEPT ![r].items[i] = ToFileResolved(item, size)]
    /\ UNCHANGED tempUploadDir

\* sharp failed on item i of request r.
ToFileFail(r, i) ==
    /\ IsCompress(r)
    /\ i \in 1..Len(requests[r].items)
    /\ requests[r].items[i].pc = "toFile"
    /\ \E message \in CodecMessages :
         requests' = [requests EXCEPT
                        ![r].items[i] = ToFileRejected(requests[r].items[i], message)]
    /\ UNCHANGED <<processedImages, tempProcessedDir, tempUploadDir, evicted>>

\* The unlink of the uploaded file of item i settled (ok: the file is gone).
\* When this was the last task, the batch responds in the same turn.
UploadUnlink(r, i, ok) ==
    /\ IsCompress(r)
    /\ i \in 1..Len(requests[r].items)
    /\ requests[r].items[i].pc = "unlink"
    /\ tempUploadDir' = IF ok THEN tempUploadDir \ { <<r, i>> } ELSE tempUploadDir
    /\ requests' = [requests EXCEPT
                      ![r] = Join([requests[r] EXCEPT
                                     !.items[i] = UnlinkSettled(requests[r].items[i], ok)])]
    /\ UNCHANGED <<processedImages, tempProcessedDir, evicted>>

\* The handler of GET /download/:filename: lookup, headers, start of the stream.
DownloadStart(filename) ==
    /\ Len(requests) < MaxRequests
    /\ LET tempFilePath == Lookup(processedImages, filename) IN
       requests' = Append(requests,
         IF tempFilePath # Null
         THEN [ kind |-> "download", filename |-> filename,
                tempFilePath |-> tempFilePath, pc |-> "streaming",
                statusCode |-> 0, contentType |-> ContentType(filename),
                disposition |-> filename, payload |-> Null ]
         ELSE [ kind |-> "download", filename |-> filename,
                tempFilePath |-> Null, pc |-> "done",
                statusCode |-> 404, contentType |-> "text/html",
                disposition |-> Null, payload |-> Null ])
    /\ UNCHANGED <<processedImages, tempProcessedDir, tempUploadDir, evicted>>

\* The read stream delivered the whole file: the response is complete and the
\* 'end' listener starts the unlink of the processed file.
StreamEnd(r) ==
    /\ IsDownload(r)
    /\ requests[r].pc = "streaming"
    /\ requests[r].tempFilePath \in tempProcessedDir
    /\ requests' = [requests EXCEPT ![r].pc = "unlinking", ![r].statusCode = 200,
                                    ![r].payload = requests[r].tempFilePath]
    /\ UNCHANGED <<processedImages, tempProcessedDir, tempUploadDir, evicted>>

\* The read stream could not open what it was given (the file is gone, or the
\* value is no path): the 'error' listener answers 500.
StreamError(r) ==
    /\ IsDownload(r)
    /\ requests[r].pc = "streaming"
    /\ requests[r].tempFilePath \notin tempProcessedDir
    /\ requests' = [requests EXCEPT ![r].pc = "done", ![r].statusCode = 500]
    /\ UNCHANGED <<processedImages, tempProcessedDir, tempUploadDir, evicted>>

\* An 'end' listener that deletes the entry whether or not the unlink succeeded.
ProcessedUnlinkThenAlwaysDelete(r, ok) ==
    /\ IsDownload(r)
    /\ requests[r].pc = "unlinking"
    /\ tempProcessedDir' = IF ok THEN tempProcessedDir \ { requests[r].tempFilePath }
                           ELSE tempProcessedDir
    /\ processedImages' = DeleteKey(processedImages, requests[r].filename)
    /\ evicted' = evicted \cup (Values(processedImages) \ Values(processedImages'))
    /\ requests' = [requests EXCEPT ![r].pc = "done"]
    /\ UNCHANGED tempUploadDir

\* The unlink of the processed file settled; only after a successful unlink is
\* the entry deleted from processedImages.
ProcessedUnlink(r, ok) ==
    /\ IsDownload(r)
    /\ requests[r].pc = "unlinking"
    /\ IF ok /\ requests[r].tempFilePath \in tempProcessedDir
       THEN /\ tempProcessedDir' = tempProcessedDir \ { requests[r].tempFilePath }
            /\ processedImages' = DeleteKey(processedImages, requests[r].filename)
            /\ evicted' = evicted \cup
                 (Values(processedImages) \ Values(processedImages'))
       ELSE UNCHANGED <<processedImages, tempProcessedDir, evicted>>
    /\ requests' = [requests EXCEPT ![r].pc = "done"]
    /\ UNCHANGED tempUploadDir

\* A download-all handler that answers an empty store with 404 and archives
\* only the first key of a store that is not empty.
DownloadAllZipFirstKeyOr404 ==
    /\ Len(requests) < MaxRequests
    /\ requests' = Append(requests,
         IF processedImages = <<>>
         THEN [ kind |-> "zip", entries |-> <<>>, unfinished |-> Unfinished,
                finalized |-> FALSE, statusCode |-> 404 ]
         ELSE [ kind |-> "zip",
                entries |-> <<[name |-> processedImages[1].key,
                               path |-> processedImages[1].value]>>,
                unfinished |-> Unfinished,
                finalized |-> TRUE, statusCode |-> 200 ])
    /\ UNCHANGED <<processedImages, tempProcessedDir, tempUploadDir, evicted>>

\* A download-all handler that empties the store once the archive is finalized.
DownloadAllZipEvicting ==
    /\ Len(requests) < MaxRequests
    /\ LET filenames == [k \in 1..Len(processedImages) |-> processedImages[k].key] IN
       requests' = Append(requests,
         [ kind |-> "zip",
           entries |-> [k \in 1..Len(filenames) |->
                          [name |-> filenames[k],
                           path |-> Lookup(processedImages, filenames[k])]],
           unfinished |-> Unfinished,
           finalized |-> TRUE, statusCode |-> 200 ])
    /\ processedImages' = <<>>
    /\ evicted' = evicted \cup Values(processedImages)
    /\ UNCHANGED <<tempProcessedDir, tempUploadDir>>

\* The handler of GET /download-all-zip: every key of processedImages, in
\* Object.keys order, is handed to the archiver, which is then finalized.  The
\* record of the request keeps, as history, the requests not over at that time.
DownloadAllZip ==
    /\ Len(requests) < MaxRequests
    /\ LET filenames == [k \in 1..Len(processedImages) |-> processedImages[k].key] IN
       requests' = Append(requests,
         [ kind |-> "zip",
           entries |-> [k \in 1..Len(filenames) |->
                          [name |-> filenames[k],
                           path |-> Lookup(processedImages, filenames[k])]],
           unfinished |-> Unfinished,
           finalized |-> TRUE, statusCode |-> 200 ])
    /\ UNCHANGED <<processedImages, tempProcessedDir, tempUploadDir, evicted>>

Next ==
    \/ \E files \in Uploads, format \in Formats : CompressStart(files, format)
    \/ \E r \in 1..MaxRequests, i \in 1..MaxFiles : ToFileOk(r, i)
    \/ \E r \in 1..MaxRequests, i \in 1..MaxFiles : ToFileFail(r, i)
    \/ \E r \in 1..MaxRequests, i \in 1..MaxFiles, ok \in BOOLEAN : UploadUnlink(r, i, ok)
    \/ \E filename \in DownloadNames : DownloadStart(filename)
    \/ \E r \in 1..MaxRequests : StreamEnd(r)
    \/ \E r \in 1..MaxRequests : StreamError(r)
    \/ \E r \in 1..MaxRequests, ok \in BOOLEAN : ProcessedUnlink(r, ok)
    \/ DownloadAllZip

Spec == Init /\ [][Next]_vars

\* The same server with the scheduling made explicit: a codec call that is
\* pending returns (libuv completes the work it was handed), and so does a
\* pending unlink of an uploaded file.  Runs have at most MaxLiveRequests requests.
LiveNext == Next /\ Len(requests') <= MaxLiveRequests

Fairness ==
    \A r \in 1..MaxLiveRequests, i \in 1..MaxFiles :
        /\ WF_vars(ToFileOk(r, i) \/ ToFileFail(r, i))
        /\ WF_vars(\E ok \in BOOLEAN : UploadUnlink(r, i, ok))

LiveSpec == Init /\ [][LiveNext]_vars /\ Fairness

\* ------------------------------------------------ the quality parameter
\* const quality = parseInt(req.query.quality, 10) || 75, as a specification of
\* its own: a /compress request is received with some quality parameter, and
\* the handler computes the quality it hands to toFormat.
QualityChars == { " ", "-", "0", "1", "7", "x" }

\* req.query.quality: absent (<<>>) or <<str>>, str a sequence of characters.
QualityParams ==
    { <<>> } \cup
    { <<str>> : str \in UNION { [1..n -> QualityChars] : n \in 0..MaxQualityLen } }

DefaultQuality == 75

IsDigit(c) == c \in { "0", "1", "7" }

DigitValue(c) == CASE c = "0" -> 0 [] c = "1" -> 1 [] c = "7" -> 7

RECURSIVE TrimStart(_)
\* The string without its leading white space.
TrimStart(str) ==
    IF str # <<>> /\ Head(str) = " " THEN TrimStart(Tail(str)) ELSE str

RECURSIVE ParseDigits(_, _)
\* The value of the longest prefix of digits of str, read after the value acc.
ParseDigits(str, acc) ==
    IF str # <<>> /\ IsDigit(Head(str))
    THEN ParseDigits(Tail(str), 10 * acc + DigitValue(Head(str)))
    ELSE acc

NaN == [nan |-> TRUE, negative |-> FALSE, magnitude |-> 0]

\* parseInt(param, 10): undefined reads as "undefined"; leading white space is
\* skipped, then an optional sign, then the longest prefix of digits; NaN when
\* there is no digit.
ParseInt(param) ==
    IF param = <<>> THEN NaN
    ELSE LET trimmed == TrimStart(param[1])
             negative == trimmed # <<>> /\ Head(trimmed) = "-"
             digits == IF negative THEN Tail(trimmed) ELSE trimmed
         IN  IF digits # <<>> /\ IsDigit(Head(digits))
             THEN [nan |-> FALSE, negative |-> negative,
                   magnitude |-> ParseDigits(digits, 0)]
             ELSE NaN

\* x || 75: NaN, 0 and -0 are falsy.
OrDefault(x) ==
    IF x.nan \/ x.magnitude = 0
    THEN [negative |-> FALSE, magnitude |-> DefaultQuality]
    ELSE [negative |-> x.negative, magnitude |-> x.magnitude]

QualityInit ==
    /\ \E param \in QualityParams :
         requests = << [ kind |-> "compress", quality |-> param,
                         pc |-> "received", options |-> Null ] >>
    /\ processedImages = <<>>
    /\ tempProcessedDir = {}
    /\ tempUploadDir = {}
    /\ evicted = {}

\* The handler computes quality; options is the { quality } object of toFormat.
ParseQuality ==
    /\ requests[1].pc = "received"
    /\ requests' = << [requests[1] EXCEPT
                         !.pc = "parsed",
                         !.options = OrDefault(ParseInt(requests[1].quality))] >>
    /\ UNCHANGED <<processedImages, tempProcessedDir, tempUploadDir, evicted>>

QualityNext == ParseQuality

QualitySpec == QualityInit /\ [][QualityNext]_vars

\* ------------------------------------------- the headers of a download
\* The content type and disposition of lines 203-214 as a specification of its
\* own: a download request for some file name has found its entry, and the
\* handler sets the headers.
HeaderBaseNames == { <<"a">>, <<"b">>, <<"a", "b">>, <<"photo", "min">> }

HeaderExtensions ==
    { "jpeg", "JPEG", "jpg", "JPG", "png", "PNG", "Png", "webp", "WEBP",
      "avif", "AVIF", "jxl", "JXL", "gif", "GIF", "txt" }

\* req.params.filename: names with and without an extension.
HeaderNames ==
    { Append(base, ext) : base \in HeaderBaseNames, ext \in HeaderExtensions }
    \cup { <<"a">>, <<"constructor">> }

HeaderInit ==
    /\ \E filename \in HeaderNames :
         requests = << [ kind |-> "download", filename |-> filename,
                         pc |-> "found", contentType |-> "text/html",
                         disposition |-> Null ] >>
    /\ processedImages = <<>>
    /\ tempProcessedDir = {}
    /\ tempUploadDir = {}
    /\ evicted = {}

\* res.setHeader('Content-Type', ...); res.setHeader('Content-Disposition', ...)
SetHeaders ==
    /\ requests[1].pc = "found"
    /\ requests' = << [requests[1] EXCEPT
                         !.pc = "headers",
                         !.contentType = ContentType(requests[1].filename),
                         !.disposition = requests[1].filename] >>
    /\ UNCHANGED <<processedImages, tempProcessedDir, tempUploadDir, evicted>>

HeaderNext == SetHeaders

HeaderSpec == HeaderInit /\ [][HeaderNext]_vars

\* ------------------------------------ the /compress that answers a ZIP archive
\* The variant of src/server.js lines 341-459: uploads are kept in memory, the
\* files are converted one after the other and appended to an archive that is
\* piped to the response; there is no store.  The converted buffer of file i
\* of request r is <<r, i>>.  The field outcomes is history: what became of
\* each file the loop has passed.
RECURSIVE ZipLoop(_)
\* The for loop from file req.next on, up to its next await or to
\* archive.finalize(): a file of an unsupported format is skipped (continue).
ZipLoop(req) ==
    IF req.next > Len(req.files)
    THEN [req EXCEPT !.pc = "done", !.finalized = TRUE]
    ELSE IF req.format # <<>> /\ req.format[1] \in supportedFormats
    THEN [req EXCEPT !.pc = "toBuffer"]
    ELSE ZipLoop([req EXCEPT !.outcomes = Append(@, "unsupported"),
                             !.next = @ + 1])

ZipInit ==
    /\ requests = <<>>
    /\ processedImages = <<>>
    /\ tempProcessedDir = {}
    /\ tempUploadDir = {}
    /\ evicted = {}

IsZipCompress(r) == r \in 1..Len(requests) /\ requests[r].kind = "compressZip"

\* The handler up to its first await.
ZipCompressStart(files, format) ==
    /\ Len(requests) < MaxZipRequests
    /\ requests' = Append(requests,
         IF Len(files) = 0
         THEN [ kind |-> "compressZip", files |-> files, format |-> Null,
                next |-> 1, archive |-> <<>>, processedCount |-> 0,
                outcomes |-> <<>>, finalized |-> FALSE, pc |-> "done", statusCode |-> 400,
                contentType |-> "text/html", body |-> <<"No images uploaded.">> ]
         ELSE ZipLoop([ kind |-> "compressZip", files |-> files, format |-> format,
                        next |-> 1, archive |-> <<>>, processedCount |-> 0,
                        outcomes |-> <<>>, finalized |-> FALSE, pc |-> "loop", statusCode |-> 200,
                        contentType |-> "application/zip", body |-> <<>> ]))
    /\ UNCHANGED <<processedImages, tempProcessedDir, tempUploadDir, evicted>>

\* toBuffer resolved for the current file of request r: the buffer is appended
\* to the archive and the loop goes on.
ToBufferOk(r) ==
    /\ IsZipCompress(r)
    /\ requests[r].pc = "toBuffer"
    /\ LET req == requests[r]
           entry == [ name |-> OutputFilename(req.files[req.next].originalname, req.format),
                      buffer |-> <<r, req.next>> ]
       IN  requests' = [requests EXCEPT
                          ![r] = ZipLoop([req EXCEPT !.archive = Append(@, entry),
                                                     !.processedCount = @ + 1,
                                                     !.outcomes = Append(@, "ok"),
                                                     !.next = @ + 1])]
    /\ UNCHANGED <<processedImages, tempProcessedDir, tempUploadDir, evicted>>

\* A catch block that gives up the batch: the archive is finalized at once.
ToBufferFailEndsBatch(r) ==
    /\ IsZipCompress(r)
    /\ requests[r].pc = "toBuffer"
    /\ requests' = [requests EXCEPT
                      ![r] = [requests[r] EXCEPT !.outcomes = Append(@, "failed"),
                                                 !.next = @ + 1,
                                                 !.pc = "done",
                                                 !.finalized = TRUE]]
    /\ UNCHANGED <<processedImages, tempProcessedDir, tempUploadDir, evicted>>

\* toBuffer rejected: the catch block logs the error and the loop goes on.
ToBufferFail(r) ==
    /\ IsZipCompress(r)
    /\ requests[r].pc = "toBuffer"
    /\ requests' = [requests EXCEPT
                      ![r] = ZipLoop([requests[r] EXCEPT !.outcomes = Append(@, "failed"),
                                                         !.next = @ + 1])]
    /\ UNCHANGED <<processedImages, tempProcessedDir, tempUploadDir, evicted>>

ZipNext ==
    \/ \E files \in Uploads, format \in Formats : ZipCompressStart(files, format)
    \/ \E r \in 1..MaxZipRequests : ToBufferOk(r)
    \/ \E r \in 1..MaxZipRequests : ToBufferFail(r)

ZipSpec == ZipInit /\ [][ZipNext]_vars

\* ------------------------------------ the variant that keeps outputs in memory
\* src/unnamed/part_004: uploads and outputs are buffers, processedImages maps
\* an output name to a buffer, the files of a batch are converted one after
\* the other, and a download sends the buffer.  The buffer of file i of
\* request r is <<r, i>>.
MemResult(file, size, status) ==
    [ name |-> file.originalname, originalSize |-> file.size,
      compressedSize |-> size, status |-> status ]

RECURSIVE MemLoop(_)
\* The for loop from file req.next on, up to its next await or to
\* res.json(results): a file of an unsupported format is reported and skipped.
MemLoop(req) ==
    IF req.next > Len(req.files)
    THEN [req EXCEPT !.pc = "done", !.statusCode = 200, !.body = req.results]
    ELSE IF req.format # <<>> /\ req.format[1] \in supportedFormats
    THEN [req EXCEPT !.pc = "toBuffer"]
    ELSE MemLoop([req EXCEPT
                    !.results = Append(@, MemResult(req.files[req.next], 0,
                                                    "Unsupported Format")),
                    !.next = @ + 1])

MemInit ==
    /\ processedImages = <<>>
    /\ requests = <<>>
    /\ tempProcessedDir = {}
    /\ tempUploadDir = {}
    /\ evicted = {}

IsMemCompress(r) == r \in 1..Len(requests) /\ requests[r].kind = "memCompress"
IsMemDownload(r) == r \in 1..Len(requests) /\ requests[r].kind = "memDownload"

\* The /compress requests suspended at an await of toBuffer.
MemInFlight == { q \in 1..Len(requests) : IsMemCompress(q) /\ requests[q].pc = "toBuffer" }

\* The handler of POST /compress up to its first await: the clear loop, the
\* empty check, the loop up to the first supported file.
MemCompressStart(files, format) ==
    /\ Len(requests) < MaxMemRequests
    /\ processedImages' = ClearLoop(processedImages)
    /\ requests' = Append(requests,
         IF Len(files) = 0
         THEN [ kind |-> "memCompress", files |-> files, format |-> Null,
                next |-> 1, results |-> <<>>, pc |-> "done", statusCode |-> 400,
                body |-> <<[error |-> "No images uploaded."]>> ]
         ELSE MemLoop([ kind |-> "memCompress", files |-> files, format |-> format,
                        next |-> 1, results |-> <<>>, pc |-> "loop",
                        statusCode |-> 0, body |-> <<>> ]))
    /\ UNCHANGED <<tempProcessedDir, tempUploadDir, evicted>>

\* toBuffer resolved for the current file of request r: the buffer is stored
\* under the output name, the result is pushed and the loop goes on.
MemToBufferOk(r) ==
    /\ IsMemCompress(r)
    /\ requests[r].pc = "toBuffer"
    /\ \E size \in InfoSizes :
         LET req == requests[r]
             file == req.files[req.next]
         IN  /\ processedImages' = Assign(processedImages,
                                          OutputFilename(file.originalname, req.format),
                                          <<r, req.next>>)
             /\ requests' = [requests EXCEPT
                   ![r] = MemLoop([req EXCEPT
                                     !.results = Append(@, MemResult(file, size, "Complete")),
                                     !.next = @ + 1])]
    /\ UNCHANGED <<tempProcessedDir, tempUploadDir, evicted>>

\* toBuffer rejected: the catch block sets status Error, the result is pushed
\* and the loop goes on.
MemToBufferFail(r) ==
    /\ IsMemCompress(r)
    /\ requests[r].pc = "toBuffer"
    /\ LET req == requests[r] IN
       requests' = [requests EXCEPT
          ![r] = MemLoop([req EXCEPT
                            !.results = Append(@, MemResult(req.files[req.next], 0, "Error")),
                            !.next = @ + 1])]
    /\ UNCHANGED <<processedImages, tempProcessedDir, tempUploadDir, evicted>>

\* A download handler that deletes the entry it has sent.
MemDownloadEvicting(filename) ==
    /\ Len(requests) < MaxMemRequests
    /\ LET imageBuffer == Lookup(processedImages, filename) IN
       requests' = Append(requests,
         IF imageBuffer # Null
         THEN [ kind |-> "memDownload", filename |-> filename, inFlight |-> MemInFlight,
                statusCode |-> 200, contentType |-> ContentType(filename),
                disposition |-> filename, payload |-> imageBuffer ]
         ELSE [ kind |-> "memDownload", filename |-> filename, inFlight |-> MemInFlight,
                statusCode |-> 404, contentType |-> "text/html",
                disposition |-> Null, payload |-> Null ])
    /\ processedImages' = DeleteKey(processedImages, filename)
    /\ UNCHANGED <<tempProcessedDir, tempUploadDir, evicted>>

\* The handler of GET /download/:filename: lookup, headers, res.send(buffer).
\* The record of the request keeps, as history, the batches in flight then.
MemDownload(filename) ==
    /\ Len(requests) < MaxMemRequests
    /\ LET imageBuffer == Lookup(processedImages, filename) IN
       requests' = Append(requests,
         IF imageBuffer # Null
         THEN [ kind |-> "memDownload", filename |-> filename, inFlight |-> MemInFlight,
                statusCode |-> 200, contentType |-> ContentType(filename),
                disposition |-> filename, payload |-> imageBuffer ]
         ELSE [ kind |-> "memDownload", filename |-> filename, inFlight |-> MemInFlight,
                statusCode |-> 404, contentType |-> "text/html",
                disposition |-> Null, payload |-> Null ])
    /\ UNCHANGED <<processedImages, tempProcessedDir, tempUploadDir, evicted>>

MemDownloadNames == { <<"a", "webp">>, <<"b", "webp">> }

MemNext ==
    \/ \E files \in Uploads, format \in Formats : MemCompressStart(files, format)
    \/ \E r \in 1..MaxMemRequests : MemToBufferOk(r)
    \/ \E r \in 1..MaxMemRequests : MemToBufferFail(r)
    \/ \E filename \in MemDownloadNames : MemDownload(filename)

MemSpec == MemInit /\ [][MemNext]_vars

\* ------------------------------------------------------- the /convert variant
\* src/server.js lines 461-537: multer stages the uploads in uploads/, the
\* handler makes a session directory, converts the files one after the other
\* inside one try block, deleting each staged file after its conversion, then
\* writes a ZIP of the session directory and answers an HTML page.  The staged
\* file and the converted file of file i of request r are both named <<r, i>>
\* (in tempUploadDir and tempProcessedDir).  The field outcomes is history:
\* what became of each file the loop has reached.
ConvertFormats == { <<>>, <<"jpeg">> }

\* req.body.format || 'png'
ConvertFormat(format) == IF format = <<>> THEN "png" ELSE format[1]

\* format === 'jpeg' ? 'jpg' : format
ConvertExt(format) == IF format = "jpeg" THEN "jpg" ELSE format

ConvertInit ==
    /\ requests = <<>>
    /\ processedImages = <<>>
    /\ tempProcessedDir = {}
    /\ tempUploadDir = {}
    /\ evicted = {}

IsConvert(r) == r \in 1..Len(requests) /\ requests[r].kind = "convert"

\* The catch block: 500 and the end of the handler.
ConvertCatch(req) ==
    [req EXCEPT !.pc = "done", !.statusCode = 500,
                !.body = <<"An error occurred during image conversion.">>]

\* The top of the for loop at file req.next: the next conversion is awaited,
\* or, past the last file, the ZIP file is created and its finalize awaited.
ConvertLoop(req) ==
    IF req.next > Len(req.files)
    THEN [req EXCEPT !.pc = "finalize", !.zipCreated = TRUE]
    ELSE [req EXCEPT !.pc = "toFile"]

\* The handler up to its first await; mkdirSync succeeded.
ConvertStart(files, format) ==
    /\ Len(requests) < MaxConvertRequests
    /\ LET r == Len(requests) + 1 IN
       /\ tempUploadDir' = tempUploadDir \cup { <<r, i>> : i \in 1..Len(files) }
       /\ requests' = Append(requests,
            ConvertLoop([ kind |-> "convert", files |-> files,
                          format |-> ConvertFormat(format),
                          ext |-> ConvertExt(ConvertFormat(format)),
                          next |-> 1, convertedFiles |-> <<>>, outcomes |-> <<>>,
                          zipCreated |-> FALSE, pc |-> "loop",
                          statusCode |-> 0, body |-> <<>> ]))
    /\ UNCHANGED <<processedImages, tempProcessedDir, evicted>>

\* The handler when mkdirSync throws (a request of the same millisecond made
\* the session directory): the throw is outside the try block, the handler
\* ends and no response is sent.
ConvertStartThrows(files, format) ==
    /\ Len(requests) < MaxConvertRequests
    /\ \E q \in 1..Len(requests) : IsConvert(q)
    /\ LET r == Len(requests) + 1 IN
       /\ tempUploadDir' = tempUploadDir \cup { <<r, i>> : i \in 1..Len(files) }
       /\ requests' = Append(requests,
            [ kind |-> "convert", files |-> files,
              format |-> ConvertFormat(format),
              ext |-> ConvertExt(ConvertFormat(format)),
              next |-> 1, convertedFiles |-> <<>>, outcomes |-> <<>>,
              zipCreated |-> FALSE, pc |-> "thrown",
              statusCode |-> 0, body |-> <<>> ])
    /\ UNCHANGED <<processedImages, tempProcessedDir, evicted>>

\* toFile resolved for the current file of request r: the converted file is
\* in the session directory, its link is pushed, and unlinkSync either removes
\* the staged file, after which the loop goes on, or throws into the catch
\* block.
ConvertToFileOk(r, unlinked) ==
    /\ IsConvert(r)
    /\ requests[r].pc = "toFile"
    /\ LET req == requests[r]
           i == req.next
           pushed == [req EXCEPT
                        !.convertedFiles =
                           Append(@, Append(PathParseName(req.files[i].originalname),
                                            req.ext))]
       IN  /\ tempProcessedDir' = tempProcessedDir \cup { <<r, i>> }
           /\ IF unlinked
              THEN /\ tempUploadDir' = tempUploadDir \ { <<r, i>> }
                   /\ requests' = [requests EXCEPT
                         ![r] = ConvertLoop([pushed EXCEPT
                                               !.outcomes = Append(@, "ok"),
                                               !.next = @ + 1])]
              ELSE /\ tempUploadDir' = tempUploadDir
                   /\ requests' = [requests EXCEPT
                         ![r] = ConvertCatch([pushed EXCEPT
                                                !.outcomes = Append(@, "unlinkFailed")])]
    /\ UNCHANGED <<processedImages, evicted>>

\* A catch block inside the loop body: the failed file is skipped.
ConvertToFileFailSkipsFile(r) ==
    /\ IsConvert(r)
    /\ requests[r].pc = "toFile"
    /\ requests' = [requests EXCEPT
          ![r] = ConvertLoop([requests[r] EXCEPT !.outcomes = Append(@, "failed"),
                                                 !.next = @ + 1])]
    /\ UNCHANGED <<processedImages, tempProcessedDir, tempUploadDir, evicted>>

\* toFormat threw or toFile rejected for the current file of request r: the
\* catch block around the whole loop answers 500.
ConvertToFileFail(r) ==
    /\ IsConvert(r)
    /\ requests[r].pc = "toFile"
    /\ requests' = [requests EXCEPT
          ![r] = ConvertCatch([requests[r] EXCEPT !.outcomes = Append(@, "failed")])]
    /\ UNCHANGED <<processedImages, tempProcessedDir, tempUploadDir, evicted>>

\* archive.finalize() settled: the HTML page of links is sent, or the catch
\* block answers 500.
ConvertFinalize(r, ok) ==
    /\ IsConvert(r)
    /\ requests[r].pc = "finalize"
    /\ requests' = [requests EXCEPT
          ![r] = IF ok
                 THEN [requests[r] EXCEPT !.pc = "done", !.statusCode = 200,
                                          !.body = requests[r].convertedFiles]
                 ELSE ConvertCatch(requests[r])]
    /\ UNCHANGED <<processedImages, tempProcessedDir, tempUploadDir, evicted>>

ConvertNext ==
    \/ \E files \in Uploads, format \in ConvertFormats : ConvertStart(files, format)
    \/ \E files \in Uploads, format \in ConvertFormats : ConvertStartThrows(files, format)
    \/ \E r \in 1..MaxConvertRequests, unlinked \in BOOLEAN : ConvertToFileOk(r, unlinked)
    \/ \E r \in 1..MaxConvertRequests : ConvertToFileFail(r)
    \/ \E r \in 1..MaxConvertRequests, ok \in BOOLEAN : ConvertFinalize(r, ok)

ConvertSpec == ConvertInit /\ [][ConvertNext]_vars

\* ------------------------------------- the variant that imports fs/promises
\* src/unnamed/part_001: the same routes as the disk-backed variant, with
\* `import fs from "fs/promises"` as the only fs binding.  /compress is the
\* same code (fs.unlink is a function of fs/promises); in the download handler
\* fs.createReadStream is undefined, the call throws a TypeError inside the
\* try block, and the catch block answers 500: no stream is made, no listener
\* is attached, nothing is unlinked and the entry stays.
PromisesDownload(filename) ==
    /\ Len(requests) < MaxRequests
    /\ LET tempFilePath == Lookup(processedImages, filename) IN
       requests' = Append(requests,
         IF tempFilePath # Null
         THEN [ kind |-> "download", filename |-> filename,
                tempFilePath |-> tempFilePath, pc |-> "done",
                statusCode |-> 500, contentType |-> ContentType(filename),
                disposition |-> filename, payload |-> Null ]
         ELSE [ kind |-> "download", filename |-> filename,
                tempFilePath |-> Null, pc |-> "done",
                statusCode |-> 404, contentType |-> "text/html",
                disposition |-> Null, payload |-> Null ])
    /\ UNCHANGED <<processedImages, tempProcessedDir, tempUploadDir, evicted>>

PromisesNext ==
    \/ \E files \in Uploads, format \in Formats : CompressStart(files, format)
    \/ \E r \in 1..MaxRequests, i \in 1..MaxFiles : ToFileOk(r, i)
    \/ \E r \in 1..MaxRequests, i \in 1..MaxFiles : ToFileFail(r, i)
    \/ \E r \in 1..MaxRequests, i \in 1..MaxFiles, ok \in BOOLEAN : UploadUnlink(r, i, ok)
    \/ \E filename \in DownloadNames : PromisesDownload(filename)

PromisesSpec == Init /\ [][PromisesNext]_vars

\* ---------------------------------------------------------------- claims
\* C1: when a non-empty batch is answered, the answer is a list with exactly
\* one report per uploaded file and report i carries the original name of
\* file i, whatever order the conversions finished in.
C1_ReportsInInputOrder ==
    \A r \in 1..Len(requests) :
        (IsCompress(r) /\ Len(requests[r].files) > 0 /\ requests[r].phase = "responded") =>
            /\ requests[r].statusCode = 200
            /\ Len(requests[r].body) = Len(requests[r].files)
            /\ \A i \in 1..Len(requests[r].files) :
                 requests[r].body[i].name = requests[r].files[i].originalname

\* An answered two-file batch whose second file was converted before its first.
C1_Witness ==
    \E r \in 1..Len(requests) :
        /\ IsCompress(r)
        /\ requests[r].phase = "responded"
        /\ Len(requests[r].files) = 2
        /\ Len(processedImages) = 2
        /\ processedImages[1].value = <<r, 2>>
        /\ processedImages[2].value = <<r, 1>>

\* C2 as claimed: in the step that sends a batch's response, every item the
\* response reports as Complete has its output name as a key of processedImages
\* (checked on the runs in which every /compress request came with files and a
\* supported format).
C2_Original ==
    [][\A r \in 1..Len(requests) :
         (IsCompress(r) /\ requests[r].phase = "running"
            /\ requests'[r].phase = "responded"
            /\ \A q \in 1..Len(requests) :
                 IsCompress(q) =>
                     /\ Len(requests[q].files) > 0
                     /\ requests[q].format # <<>>
                     /\ ToLowerCase(requests[q].format[1]) \in supportedFormats) =>
             \A i \in 1..Len(requests'[r].body) :
                 requests'[r].body[i].status = "Complete" =>
                     HasKey(processedImages', requests'[r].body[i].outputFilename)]_vars

\* C2 as amended: in the step that sends a batch's response, every item the
\* response reports as Complete has its output name as a key of
\* processedImages, unless the entry the item wrote has left the store in the
\* meantime (deleted after a download of that name, or cleared by the start of
\* another /compress request).
C2_CompleteIsStoredUnlessEvicted ==
    [][\A r \in 1..Len(requests) :
         (IsCompress(r) /\ requests[r].phase = "running"
            /\ requests'[r].phase = "responded") =>
             \A i \in 1..Len(requests'[r].body) :
                 requests'[r].body[i].status = "Complete" =>
                     \/ HasKey(processedImages', requests'[r].body[i].outputFilename)
                     \/ requests'[r].items[i].tempProcessedFilePath \in evicted']_vars

\* An answered batch with a Complete item whose entry is in the store.
C2_Witness ==
    \E r \in 1..Len(requests) :
        /\ IsCompress(r)
        /\ requests[r].phase = "responded"
        /\ \E i \in 1..Len(requests[r].items) :
             /\ requests[r].body[i].status = "Complete"
             /\ Lookup(processedImages, requests[r].body[i].outputFilename) = <<r, i>>

\* C3: an item that ends as Error or Unsupported Format changes nothing for
\* its siblings: every item whose codec call succeeded is Complete and was
\* written to the store, and once every task is over the batch has answered
\* with the full list, in which those items are Complete.
C3_SiblingIsolation ==
    \A r \in 1..Len(requests) :
        IsCompress(r) =>
            /\ \A i \in 1..Len(requests[r].items) :
                 requests[r].items[i].codec = "ok" =>
                     /\ requests[r].items[i].status = "Complete"
                     /\ <<r, i>> \in Values(processedImages) \cup evicted
            /\ ( /\ Len(requests[r].items) > 0
                 /\ \A i \in 1..Len(requests[r].items) :
                      requests[r].items[i].pc \in { "done", "rejected" } ) =>
                   /\ requests[r].phase = "responded"
                   /\ Len(requests[r].body) = Len(requests[r].files)
                   /\ \A i \in 1..Len(requests[r].items) :
                        requests[r].items[i].codec = "ok" =>
                            requests[r].body[i].status = "Complete"

\* An answered batch in which the codec failed on the first file and the
\* second file is Complete and stored.
C3_Witness ==
    \E r \in 1..Len(requests) :
        /\ IsCompress(r)
        /\ requests[r].phase = "responded"
        /\ Len(requests[r].items) = 2
        /\ requests[r].body[1].status = "Error"
        /\ requests[r].items[1].codec = "fail"
        /\ requests[r].body[2].status = "Complete"
        /\ Lookup(processedImages, requests[r].body[2].outputFilename) = <<r, 2>>

\* C4 as claimed: a download of a name that starts after an earlier download of
\* the same name was answered with the payload, with every batch answered
\* before that earlier download and no newer entry under the name, is answered
\* 404.
C4_Original ==
    [][( /\ Len(requests') = Len(requests) + 1
         /\ requests'[Len(requests')].kind = "download" ) =>
           LET d2 == requests'[Len(requests')] IN
           \A d1 \in 1..Len(requests) :
               ( /\ IsDownload(d1)
                 /\ requests[d1].filename = d2.filename
                 /\ requests[d1].statusCode = 200
                 /\ \A q \in 1..Len(requests) :
                      requests[q].kind = "compress" =>
                          (q < d1 /\ requests[q].phase = "responded")
                 /\ Lookup(processedImages, d2.filename) \in { Null, requests[d1].payload } )
               => d2.statusCode = 404]_vars

\* C5: the start of a non-empty batch leaves no entry in the store before any
\* of its items is converted: every entry that was there has left the store,
\* and an entry that has left the store never comes back.
C5_NewBatchClears ==
    /\ [][( /\ Len(requests') = Len(requests) + 1
            /\ requests'[Len(requests')].kind = "compress"
            /\ Len(requests'[Len(requests')].files) > 0 ) =>
              /\ processedImages' = <<>>
              /\ Values(processedImages) \subseteq evicted'
              /\ \A i \in 1..Len(requests'[Len(requests')].items) :
                   requests'[Len(requests')].items[i].codec = "none"]_vars
    /\ [](Values(processedImages) \cap evicted = {})

\* A one-file batch was converted, its output was never downloaded (the file is
\* still on disk), and a later non-empty batch has removed its entry.
C5_Witness ==
    \E a \in 1..Len(requests), b \in 1..Len(requests) :
        /\ a < b
        /\ IsCompress(a) /\ IsCompress(b)
        /\ Len(requests[a].files) = 1
        /\ requests[a].phase = "responded"
        /\ requests[a].items[1].status = "Complete"
        /\ Len(requests[b].files) > 0
        /\ <<a, 1>> \in evicted \cap tempProcessedDir
        /\ ~HasKey(processedImages, requests[a].items[1].outputFilename)

\* C6 as claimed: a /compress request with no files is answered 400, starts no
\* conversion and leaves processedImages as it was.
C6_Original ==
    [][( /\ Len(requests') = Len(requests) + 1
         /\ requests'[Len(requests')].kind = "compress"
         /\ Len(requests'[Len(requests')].files) = 0 ) =>
           /\ requests'[Len(requests')].statusCode = 400
           /\ requests'[Len(requests')].items = <<>>
           /\ processedImages' = processedImages]_vars

\* C7 as claimed: when the format parameter is absent or not a supported
\* format, every item of the batch has status Unsupported Format and
\* compressed size 0 and no entry of the store was written by it.
C7_Original ==
    \A r \in 1..Len(requests) :
        ( /\ IsCompress(r)
          /\ Len(requests[r].files) > 0
          /\ \/ requests[r].format = <<>>
             \/ ToLowerCase(requests[r].format[1]) \notin supportedFormats ) =>
            \A i \in 1..Len(requests[r].items) :
                /\ requests[r].items[i].status = "Unsupported Format"
                /\ requests[r].items[i].compressedSize = 0
                /\ <<r, i>> \notin Values(processedImages) \cup evicted

\* C8: an item on which the codec failed has status Error, an error message
\* that is neither null nor empty and compressed size 0, also in the response,
\* and its processed file never was an entry of the store.
C8_CodecFailureIsError ==
    \A r \in 1..Len(requests) :
        IsCompress(r) =>
            \A i \in 1..Len(requests[r].items) :
                requests[r].items[i].codec = "fail" =>
                    /\ requests[r].items[i].status = "Error"
                    /\ requests[r].items[i].errorMessage \notin { Null, <<"">> }
                    /\ requests[r].items[i].compressedSize = 0
                    /\ <<r, i>> \notin Values(processedImages) \cup evicted
                    /\ requests[r].phase = "responded" =>
                         /\ requests[r].body[i].status = "Error"
                         /\ requests[r].body[i].errorMessage \notin { Null, <<"">> }
                         /\ requests[r].body[i].compressedSize = 0

\* An answered batch with an item on which the codec failed, while a sibling
\* of the same output name is stored.
C8_Witness ==
    \E r \in 1..Len(requests) :
        /\ IsCompress(r)
        /\ requests[r].phase = "responded"
        /\ Len(requests[r].items) = 2
        /\ requests[r].items[1].outputFilename = requests[r].items[2].outputFilename
        /\ requests[r].items[2].codec = "fail"
        /\ Lookup(processedImages, requests[r].items[2].outputFilename) = <<r, 1>>

\* C9: no per-file task rejects: a task that is over has one of the three
\* statuses, the join never rejects, and a non-empty batch whose tasks are all
\* over has answered 200 with one report per file.
C9_TaskNeverRejects ==
    \A r \in 1..Len(requests) :
        IsCompress(r) =>
            /\ requests[r].phase # "rejected"
            /\ \A i \in 1..Len(requests[r].items) :
                 /\ requests[r].items[i].pc # "rejected"
                 /\ requests[r].items[i].pc = "done" =>
                      requests[r].items[i].status \in
                          { "Complete", "Unsupported Format", "Error" }
            /\ ( /\ Len(requests[r].items) > 0
                 /\ \A i \in 1..Len(requests[r].items) :
                      requests[r].items[i].pc = "done" ) =>
                   /\ requests[r].phase = "responded"
                   /\ requests[r].statusCode = 200
                   /\ Len(requests[r].body) = Len(requests[r].items)

\* An answered batch without a format parameter whose first uploaded file
\* could not be deleted.
C9_Witness ==
    \E r \in 1..Len(requests) :
        /\ IsCompress(r)
        /\ Len(requests[r].files) > 0
        /\ requests[r].format = <<>>
        /\ requests[r].phase = "responded"
        /\ <<r, 1>> \in tempUploadDir

\* C10: a batch that has sent its list response has no task that is still
\* converting or deleting its uploaded file, and the list has one report per task.
C10_JoinAll ==
    \A r \in 1..Len(requests) :
        (IsCompress(r) /\ requests[r].phase = "responded" /\ requests[r].statusCode = 200) =>
            /\ \A i \in 1..Len(requests[r].items) : requests[r].items[i].pc = "done"
            /\ Len(requests[r].body) = Len(requests[r].items)

\* A batch with one task over and another still converting: no response yet.
C10_Witness ==
    \E r \in 1..Len(requests) :
        /\ IsCompress(r)
        /\ requests[r].phase = "running"
        /\ requests[r].statusCode = 0
        /\ \E i, j \in 1..Len(requests[r].items) :
             /\ requests[r].items[i].pc = "done"
             /\ requests[r].items[j].pc = "toFile"

\* C11 as claimed: when a batch has answered, the uploaded file of every one of
\* its items is gone from the upload directory.
C11_Original ==
    \A r \in 1..Len(requests) :
        (IsCompress(r) /\ requests[r].phase = "responded") =>
            \A i \in 1..Len(requests[r].items) : <<r, i>> \notin tempUploadDir

\* C11 as amended: for every item, whatever its status, the unlink of its
\* uploaded file is called exactly once and has settled before the batch
\* answers; the file is on disk until that call and gone after it unless the
\* call failed.
C11_UnlinkOnceBeforeResponse ==
    \A r \in 1..Len(requests) :
        IsCompress(r) =>
            \A i \in 1..Len(requests[r].items) :
                LET item == requests[r].items[i] IN
                /\ item.unlinkCalls \in { 0, 1 }
                /\ item.unlinkCalls = 1 <=> item.pc = "done"
                /\ item.unlinkCalls = 0 => <<r, i>> \in tempUploadDir
                /\ requests[r].phase = "responded" => item.unlinkCalls = 1

\* An answered batch with a Complete and an Error item whose uploaded files are
\* both gone, and an answered batch whose item is Unsupported Format and whose
\* uploaded file is gone.
C11_Witness ==
    \E r \in 1..Len(requests), q \in 1..Len(requests) :
        /\ IsCompress(r) /\ IsCompress(q)
        /\ requests[r].phase = "responded" /\ requests[q].phase = "responded"
        /\ Len(requests[r].items) = 2 /\ Len(requests[q].items) = 1
        /\ requests[r].items[1].status = "Complete"
        /\ requests[r].items[2].status = "Error"
        /\ requests[q].items[1].status = "Unsupported Format"
        /\ { <<r, 1>>, <<r, 2>>, <<q, 1>> } \cap tempUploadDir = {}
        /\ requests[r].items[1].unlinkCalls = 1
        /\ requests[r].items[2].unlinkCalls = 1
        /\ requests[q].items[1].unlinkCalls = 1

\* C12: the step in which a conversion completes leaves exactly one entry under
\* its output name, and that entry is the file just written, so of two items
\* of one batch with the same output name that both succeeded the later one is
\* stored and the earlier one has left the store; a download that finds the
\* name is never answered 404, reads the file stored under it at that moment,
\* and what it delivers is that one file.
C12_LastWriteWins ==
    /\ [][\A r \in 1..Len(requests) :
             IsCompress(r) =>
                 \A i \in 1..Len(requests[r].items) :
                     ( /\ requests[r].items[i].codec = "none"
                       /\ requests'[r].items[i].codec = "ok" ) =>
                         /\ Lookup(processedImages', requests[r].items[i].outputFilename)
                              = <<r, i>>
                         /\ Cardinality({ k \in 1..Len(processedImages') :
                                processedImages'[k].key =
                                    requests[r].items[i].outputFilename }) = 1]_vars
    /\ [][( /\ Len(requests') = Len(requests) + 1
             /\ requests'[Len(requests')].kind = "download"
             /\ HasKey(processedImages, requests'[Len(requests')].filename) ) =>
               /\ requests'[Len(requests')].statusCode # 404
               /\ requests'[Len(requests')].tempFilePath =
                    Lookup(processedImages, requests'[Len(requests')].filename)]_vars
    /\ [](\A r \in 1..Len(requests) :
             /\ (IsDownload(r) /\ requests[r].statusCode = 200) =>
                    requests[r].payload = requests[r].tempFilePath
             /\ IsCompress(r) =>
                    \A i, j \in 1..Len(requests[r].items) :
                        ( /\ i # j
                          /\ requests[r].items[i].outputFilename =
                               requests[r].items[j].outputFilename
                          /\ requests[r].items[i].codec = "ok"
                          /\ requests[r].items[j].codec = "ok" ) =>
                            { <<r, i>>, <<r, j>> } \cap evicted # {})

\* Both items of a batch have the same output name and were converted, the
\* first one later than the second, and a download of the name delivered the
\* first one's file.
C12_Witness ==
    \E r \in 1..Len(requests), d \in 1..Len(requests) :
        /\ IsCompress(r) /\ IsDownload(d)
        /\ Len(requests[r].items) = 2
        /\ requests[r].items[1].outputFilename = requests[r].items[2].outputFilename
        /\ requests[r].items[1].codec = "ok"
        /\ requests[r].items[2].codec = "ok"
        /\ <<r, 2>> \in evicted
        /\ Lookup(processedImages, requests[r].items[1].outputFilename) = <<r, 1>>
        /\ requests[d].filename = requests[r].items[1].outputFilename
        /\ requests[d].statusCode = 200
        /\ requests[d].payload = <<r, 1>>

\* C13 as claimed: a download request for a name that is not a key of
\* processedImages is answered 404 and leaves processedImages unchanged.
C13_Original ==
    [][( /\ Len(requests') = Len(requests) + 1
         /\ requests'[Len(requests')].kind = "download"
         /\ ~HasKey(processedImages, requests'[Len(requests')].filename) ) =>
           /\ requests'[Len(requests')].statusCode = 404
           /\ processedImages' = processedImages]_vars

\* C14 as claimed: of two download requests that found the same entry under
\* the same name, at most one is answered with the payload.
C14_Original ==
    \A d \in 1..Len(requests), e \in 1..Len(requests) :
        ( /\ d < e
          /\ IsDownload(d) /\ IsDownload(e)
          /\ requests[d].filename = requests[e].filename
          /\ requests[d].tempFilePath = requests[e].tempFilePath ) =>
            ~(requests[d].statusCode = 200 /\ requests[e].statusCode = 200)

C16_Original ==
    ( /\ NumBatches <= 1
      /\ \A q \in 1..Len(requests) : ~IsDownload(q) ) =>
        \A z \in 1..Len(requests), r \in 1..Len(requests) :
            (IsZip(z) /\ IsCompress(r)) =>
                LET seen == { requests[z].entries[k].name :
                                k \in 1..Len(requests[z].entries) }
                    outputs == { requests[r].items[i].outputFilename :
                                   i \in { j \in 1..Len(requests[r].items) :
                                             requests[r].items[j].codec = "ok" } }
                IN  seen \cap outputs = {} \/ outputs \subseteq seen

\* C17: the clear of a /compress request is over within the step in which the
\* request starts: that step leaves the store empty and every prior entry has
\* left it; a step in which a download or download-all request starts is not
\* such a step, it leaves the store as it is, and what the reader is handed
\* contains no entry that had left the store (a download-all is handed exactly
\* the entries of the store).
C17_NoHalfClearedRead ==
    /\ [][( /\ Len(requests') = Len(requests) + 1
             /\ requests'[Len(requests')].kind = "compress" ) =>
               /\ processedImages' = <<>>
               /\ Values(processedImages) \subseteq evicted']_vars
    /\ [][( /\ Len(requests') = Len(requests) + 1
             /\ requests'[Len(requests')].kind # "compress" ) =>
               LET reader == requests'[Len(requests')]
                   handed == IF reader.kind = "zip"
                             THEN { reader.entries[k].path : k \in 1..Len(reader.entries) }
                             ELSE { reader.tempFilePath } \ { Null, InheritedFunction }
               IN  /\ processedImages' = processedImages
                   /\ handed \cap evicted = {}
                   /\ handed \subseteq Values(processedImages)
                   /\ reader.kind = "zip" => handed = Values(processedImages)]_vars

\* A batch stored two entries, a later /compress request cleared both (the
\* files are still on disk), and a download-all request that started after it
\* was handed neither.
C17_Witness ==
    \E a \in 1..Len(requests), b \in 1..Len(requests), z \in 1..Len(requests) :
        /\ a < b /\ b < z
        /\ IsCompress(a) /\ IsCompress(b) /\ IsZip(z)
        /\ Len(requests[a].items) = 2
        /\ requests[a].items[1].outputFilename # requests[a].items[2].outputFilename
        /\ { <<a, 1>>, <<a, 2>> } \subseteq evicted \cap tempProcessedDir
        /\ \A k \in 1..Len(requests[z].entries) :
             requests[z].entries[k].path \notin { <<a, 1>>, <<a, 2>> }

\* C18 as claimed: every entry of the store was written by the most recently
\* started /compress request (checked on the runs in which every /compress
\* request came with files and a supported format).
C18_Original ==
    (\A q \in 1..Len(requests) :
        IsCompress(q) =>
            /\ Len(requests[q].files) > 0
            /\ requests[q].format # <<>>
            /\ ToLowerCase(requests[q].format[1]) \in supportedFormats) =>
        \A p \in Values(processedImages) :
            \A r \in 1..Len(requests) : IsCompress(r) => r <= p[1]

\* C18 as amended: every entry of the store was written by the most recently
\* started /compress request or by a request that was still in flight when
\* each later /compress request started; when no request was in flight at the
\* start of the most recent one, all entries are its own.
C18_CurrentOrOverlappingBatch ==
    /\ \A p \in Values(processedImages) :
          \A r \in 1..Len(requests) :
              (IsCompress(r) /\ r > p[1]) => p[1] \in requests[r].inFlight
    /\ \A r \in 1..Len(requests) :
          ( /\ IsCompress(r)
            /\ requests[r].inFlight = {}
            /\ \A q \in 1..Len(requests) : IsCompress(q) => q <= r ) =>
              \A p \in Values(processedImages) : p[1] = r

\* A batch stored an entry and answered, a second batch started after that and
\* stored an entry: the store holds the second batch's entry only.
C18_Witness ==
    \E a \in 1..Len(requests), b \in 1..Len(requests) :
        /\ a < b
        /\ IsCompress(a) /\ IsCompress(b)
        /\ requests[b].inFlight = {}
        /\ <<a, 1>> \in evicted \cap tempProcessedDir
        /\ Values(processedImages) = { <<b, 1>> }

\* C19: the step in which a download-all request is handled leaves the store,
\* the processed files and the record of removed entries as they were, and
\* every entry it handed to the archiver is, after the step, still in the
\* store under its name with the same file, which is still on disk if it was.
C19_ZipDoesNotEvict ==
    [][( /\ Len(requests') = Len(requests) + 1
         /\ requests'[Len(requests')].kind = "zip" ) =>
           LET entries == requests'[Len(requests')].entries IN
           /\ processedImages' = processedImages
           /\ tempProcessedDir' = tempProcessedDir
           /\ evicted' = evicted
           /\ Len(entries) = Len(processedImages)
           /\ \A k \in 1..Len(entries) :
                /\ HasKey(processedImages', entries[k].name)
                /\ Lookup(processedImages', entries[k].name) = entries[k].path]_vars

\* A download-all request was handed an entry, and a download of that entry's
\* name that started after it delivered the same file.
C19_Witness ==
    \E z \in 1..Len(requests), d \in 1..Len(requests) :
        /\ z < d
        /\ IsZip(z) /\ IsDownload(d)
        /\ requests[d].statusCode = 200
        /\ \E k \in 1..Len(requests[z].entries) :
             /\ requests[z].entries[k].name = requests[d].filename
             /\ requests[z].entries[k].path = requests[d].payload

\* C20: two download-all requests handled one right after the other, with
\* every earlier request over when the first is handled, hand the archiver the
\* same entries in the same order; each hands over the entries of the store in
\* the order of the store, and that order is the order of insertion: a new
\* name goes behind the names already there, which keep their order.
C20_ArchiveDeterministic ==
    /\ [](\A z \in 1..Len(requests) :
             ( /\ IsZip(z) /\ IsZip(z + 1)
               /\ requests[z].unfinished = {} ) =>
                 requests[z + 1].entries = requests[z].entries)
    /\ [][( /\ Len(requests') = Len(requests) + 1
             /\ requests'[Len(requests')].kind = "zip" ) =>
               requests'[Len(requests')].entries =
                   [k \in 1..Len(processedImages) |->
                      [name |-> processedImages[k].key,
                       path |-> processedImages[k].value]]]_vars
    /\ [][(Len(processedImages') > Len(processedImages)) =>
             /\ Len(processedImages') = Len(processedImages) + 1
             /\ SubSeq(processedImages', 1, Len(processedImages)) = processedImages]_vars
    /\ [][(Len(processedImages') = Len(processedImages)) =>
             \A k \in 1..Len(processedImages) :
                 processedImages'[k].key = processedImages[k].key]_vars

\* Two download-all requests in a row, nothing else in progress, were handed
\* the same two entries, the first of which is the output of the second file
\* of the batch (it was converted first).
C20_Witness ==
    \E r \in 1..Len(requests), z \in 1..Len(requests) :
        /\ IsCompress(r)
        /\ IsZip(z) /\ IsZip(z + 1)
        /\ requests[z].unfinished = {}
        /\ Len(requests[z].entries) = 2
        /\ requests[z].entries[1].path = <<r, 2>>
        /\ requests[z].entries[2].path = <<r, 1>>
        /\ requests[z + 1].entries = requests[z].entries

\* C21: the archive of a download-all request has one entry for every key the
\* store holds in the step that handles the request, named by that key, and no
\* other entry; the archive is finalized and the status is 200, also when the
\* store is empty and the archive has no entry.
C21_ArchiveOfEveryKey ==
    [][( /\ Len(requests') = Len(requests) + 1
         /\ requests'[Len(requests')].kind = "zip" ) =>
           LET zip == requests'[Len(requests')] IN
           /\ Len(zip.entries) = Cardinality(Keys(processedImages))
           /\ { zip.entries[k].name : k \in 1..Len(zip.entries) } = Keys(processedImages)
           /\ zip.finalized
           /\ zip.statusCode = 200
           /\ processedImages = <<>> => zip.entries = <<>>]_vars

\* One download-all request was handled with an empty store and its archive
\* was finalized without entries; another was handled with two keys in the
\* store and its archive has both.
C21_Witness ==
    \E y \in 1..Len(requests), z \in 1..Len(requests) :
        /\ IsZip(y) /\ IsZip(z)
        /\ requests[y].entries = <<>>
        /\ requests[y].finalized /\ requests[y].statusCode = 200
        /\ Len(requests[z].entries) = 2
        /\ requests[z].entries[1].name # requests[z].entries[2].name
        /\ requests[z].finalized

\* C22 as claimed: the quality handed to the codec is 75 when the parameter is
\* absent or does not start with an integer, and otherwise that integer, sign
\* included, whatever its value.
C22_Original ==
    requests[1].pc = "parsed" =>
        LET parsed == ParseInt(requests[1].quality) IN
        requests[1].options =
            IF parsed.nan
            THEN [negative |-> FALSE, magnitude |-> 75]
            ELSE [negative |-> parsed.negative /\ parsed.magnitude # 0,
                  magnitude |-> parsed.magnitude]

\* C23 as claimed: when the /compress that answers a ZIP archive has finalized
\* its archive, every uploaded file has an outcome in what the caller was sent:
\* the response being the archive alone, an entry of the archive.
C23_Original ==
    \A r \in 1..Len(requests) :
        (IsZipCompress(r) /\ requests[r].finalized) =>
            /\ requests[r].body # <<>> \/
               \A i \in 1..Len(requests[r].files) :
                   \E k \in 1..Len(requests[r].archive) :
                       requests[r].archive[k].buffer = <<r, i>>

\* C24: when every pending codec call and every pending unlink of an uploaded
\* file returns, a non-empty batch eventually sends its response, and it sends
\* it once: an answered request never changes again; as long as the codec call
\* of one item has not returned the batch has not responded, whatever its
\* siblings have done.
C24_RespondsOnceAllReturned ==
    /\ \A r \in 1..MaxLiveRequests :
          (IF IsCompress(r) THEN Len(requests[r].files) > 0 ELSE FALSE) ~>
              (IF IsCompress(r)
               THEN requests[r].phase = "responded" /\ requests[r].statusCode = 200
               ELSE FALSE)
    /\ [][\A r \in 1..Len(requests) :
             (IsCompress(r) /\ requests[r].phase = "responded") =>
                 requests'[r] = requests[r]]_vars
    /\ [](\A r \in 1..Len(requests) :
             ( /\ IsCompress(r)
               /\ \E i \in 1..Len(requests[r].items) :
                    requests[r].items[i].pc = "toFile" ) =>
                 /\ requests[r].phase = "running"
                 /\ requests[r].body = <<>>)

\* The codec call of the first file of a batch has not returned, its second
\* file is converted and its task is over: the batch has sent nothing.
C24_Witness ==
    \E r \in 1..Len(requests) :
        /\ IsCompress(r)
        /\ Len(requests[r].items) = 2
        /\ requests[r].items[1].pc = "toFile"
        /\ requests[r].items[2].pc = "done"
        /\ requests[r].items[2].status = "Complete"
        /\ requests[r].phase = "running"
        /\ requests[r].body = <<>>

\* C25: once the headers of a download are set, the content type is the one of
\* the extension of the requested name, in whatever case it is written: jpeg
\* and jpg give image/jpeg, png image/png, webp image/webp, avif image/avif,
\* jxl image/jxl, anything else or no extension application/octet-stream; the
\* disposition names the requested file.
C25_ContentTypeByExtension ==
    requests[1].pc = "headers" =>
        LET filename == requests[1].filename
            ext == IF Len(filename) > 1 THEN filename[Len(filename)] ELSE ""
        IN  /\ requests[1].disposition = filename
            /\ requests[1].contentType =
                 CASE ext \in { "jpeg", "JPEG", "jpg", "JPG" } -> "image/jpeg"
                   [] ext \in { "png", "PNG", "Png" } -> "image/png"
                   [] ext \in { "webp", "WEBP" } -> "image/webp"
                   [] ext \in { "avif", "AVIF" } -> "image/avif"
                   [] ext \in { "jxl", "JXL" } -> "image/jxl"
                   [] OTHER -> "application/octet-stream"

\* The headers of a download of photo.min.JPG: image/jpeg, and the disposition
\* names photo.min.JPG.
C25_Witness ==
    /\ requests[1].pc = "headers"
    /\ requests[1].filename = <<"photo", "min", "JPG">>
    /\ requests[1].contentType = "image/jpeg"
    /\ requests[1].disposition = <<"photo", "min", "JPG">>

\* C26 as claimed: when the unlink started at the end of a download's stream
\* settles and the store holds, under the download's name, the output of a
\* newer batch than the one whose file the download served, that entry is left
\* in the store.
C26_Original ==
    [][\A d \in 1..Len(requests) :
         ( /\ IsDownload(d)
           /\ requests[d].pc = "unlinking" /\ requests'[d].pc = "done"
           /\ HasKey(processedImages, requests[d].filename)
           /\ Lookup(processedImages, requests[d].filename)[1] > requests[d].tempFilePath[1] ) =>
             Lookup(processedImages', requests[d].filename) =
                 Lookup(processedImages, requests[d].filename)]_vars

C28_Original == tempProcessedDir \subseteq Values(processedImages)

\* C29 as claimed: the file of every entry of the store is on disk, and no
\* download that was handed the file stored under its name is answered 500
\* because the file is missing.
C29_Original ==
    /\ Values(processedImages) \subseteq tempProcessedDir
    /\ \A d \in 1..Len(requests) :
          (IsDownload(d) /\ requests[d].tempFilePath \notin { Null, InheritedFunction }) =>
              requests[d].statusCode # 500

\* C30: in the variant that keeps the outputs in memory, the step that handles
\* a download leaves the store as it was and sends the buffer stored under the
\* name (404 when there is none); two downloads of a name, with no batch in
\* flight when the first is handled and no /compress request between them,
\* send the same buffer; and the step in which a /compress request starts, with
\* or without files, leaves the store empty.
C30_MemDownloadKeepsStore ==
    /\ [][( /\ Len(requests') = Len(requests) + 1
             /\ requests'[Len(requests')].kind = "memDownload" ) =>
               LET download == requests'[Len(requests')] IN
               /\ processedImages' = processedImages
               /\ HasKey(processedImages, download.filename) =>
                    /\ download.statusCode = 200
                    /\ download.payload = Lookup(processedImages, download.filename)
               /\ ~HasKey(processedImages, download.filename) =>
                    download.statusCode = 404]_vars
    /\ [][( /\ Len(requests') = Len(requests) + 1
             /\ requests'[Len(requests')].kind = "memCompress" ) =>
               processedImages' = <<>>]_vars
    /\ [](\A d \in 1..Len(requests), e \in 1..Len(requests) :
             ( /\ d < e
               /\ IsMemDownload(d) /\ IsMemDownload(e)
               /\ requests[d].filename = requests[e].filename
               /\ requests[d].inFlight = {}
               /\ \A q \in 1..Len(requests) : (d < q /\ q < e) => ~IsMemCompress(q) ) =>
                 /\ requests[e].statusCode = requests[d].statusCode
                 /\ requests[e].payload = requests[d].payload)

\* A batch stored a.webp and answered, and two downloads of a.webp after it
\* were both sent its buffer, which is still in the store.
C30_Witness ==
    \E r \in 1..Len(requests), d \in 1..Len(requests), e \in 1..Len(requests) :
        /\ r < d /\ d < e
        /\ IsMemCompress(r) /\ IsMemDownload(d) /\ IsMemDownload(e)
        /\ requests[r].pc = "done"
        /\ requests[d].inFlight = {}
        /\ requests[d].filename = requests[e].filename
        /\ requests[d].statusCode = 200 /\ requests[e].statusCode = 200
        /\ requests[d].payload = <<r, 1>> /\ requests[e].payload = <<r, 1>>
        /\ Lookup(processedImages, requests[d].filename) = <<r, 1>>

\* The files of request r that were converted, in input order.
C31_Succeeded(r) ==
    SelectSeq([i \in 1..Len(requests[r].outcomes) |-> i],
              LAMBDA i : requests[r].outcomes[i] = "ok")

\* C31: in the /compress that answers a ZIP archive, at every moment the
\* archive of a non-empty batch holds one entry for each file converted so
\* far and no other, in input order, named stem.format; a file that failed or
\* whose format is unsupported has no entry; the loop passes every file, so
\* the archive is finalized when, and only when, the last file has an
\* outcome, and a finalized request never changes again; an empty batch is
\* answered 400 and its archive is never finalized.
C31_ArchiveOfSucceededItems ==
    /\ [](\A r \in 1..Len(requests) :
             (IsZipCompress(r) /\ Len(requests[r].files) > 0) =>
                 LET req == requests[r] IN
                 /\ Len(req.outcomes) = req.next - 1
                 /\ Len(req.archive) = Len(C31_Succeeded(r))
                 /\ \A k \in 1..Len(req.archive) :
                       /\ req.archive[k].buffer = <<r, C31_Succeeded(r)[k]>>
                       /\ req.archive[k].name =
                            Append(
                              PathParseName(req.files[C31_Succeeded(r)[k]].originalname),
                              req.format[1])
                 /\ req.finalized <=> Len(req.outcomes) = Len(req.files)
                 /\ req.finalized <=> req.pc = "done")
    /\ [](\A r \in 1..Len(requests) :
             (IsZipCompress(r) /\ Len(requests[r].files) = 0) =>
                 ~requests[r].finalized /\ requests[r].statusCode = 400)
    /\ [][\A r \in 1..Len(requests) :
             (IsZipCompress(r) /\ requests[r].finalized) =>
                 requests'[r] = requests[r]]_vars

\* A batch of two files whose first conversion failed and whose second
\* succeeded has finalized an archive of the second file alone.
C31_Witness ==
    \E r \in 1..Len(requests) :
        /\ IsZipCompress(r)
        /\ requests[r].finalized
        /\ requests[r].outcomes = <<"failed", "ok">>
        /\ Len(requests[r].archive) = 1
        /\ requests[r].archive[1].buffer = <<r, 2>>

\* C32: in the /convert variant, once the conversion of file i of a request
\* has failed, the request is answered 500 and never changes again; no file
\* after i is reached by the loop or has a converted file; no ZIP file is
\* created; the staged files of file i and of every later file are still in
\* the upload directory, and the staged files that are gone are exactly those
\* of the files before i, all of them converted.
C32_FirstFailureEndsBatch ==
    /\ [](\A r \in 1..Len(requests) : \A i \in 1..MaxFiles :
             ( /\ IsConvert(r)
               /\ i \in 1..Len(requests[r].outcomes)
               /\ requests[r].outcomes[i] = "failed" ) =>
                 LET req == requests[r] IN
                 /\ req.pc = "done" /\ req.statusCode = 500
                 /\ Len(req.outcomes) = i
                 /\ \A j \in 1..(i - 1) : req.outcomes[j] = "ok"
                 /\ \A j \in i..Len(req.files) : <<r, j>> \notin tempProcessedDir
                 /\ ~req.zipCreated
                 /\ \A j \in 1..Len(req.files) :
                       <<r, j>> \in tempUploadDir <=> j >= i)
    /\ [][\A r \in 1..Len(requests) :
             (IsConvert(r) /\ requests[r].statusCode = 500) =>
                 /\ requests'[r] = requests[r]
                 /\ \A j \in 1..Len(requests[r].files) :
                       /\ <<r, j>> \in tempUploadDir' <=> <<r, j>> \in tempUploadDir
                       /\ <<r, j>> \in tempProcessedDir' <=> <<r, j>> \in tempProcessedDir]_vars

\* A batch of two files whose first file was converted and unstaged and whose
\* second conversion failed: 500, no ZIP, the second staged file is left.
C32_Witness ==
    \E r \in 1..Len(requests) :
        /\ IsConvert(r)
        /\ requests[r].outcomes = <<"ok", "failed">>
        /\ requests[r].statusCode = 500
        /\ ~requests[r].zipCreated
        /\ <<r, 1>> \notin tempUploadDir
        /\ <<r, 2>> \in tempUploadDir
        /\ <<r, 1>> \in tempProcessedDir

\* C33 as claimed: in the variant that imports fs/promises, a download whose
\* name had a file path in the store and whose handling is over was answered
\* 200 with the bytes of that file, and the store no longer maps the name to
\* that file.
C33_Original ==
    \A d \in 1..Len(requests) :
        ( /\ IsDownload(d)
          /\ requests[d].tempFilePath \notin { Null, InheritedFunction }
          /\ requests[d].pc = "done" ) =>
            /\ requests[d].statusCode = 200
            /\ requests[d].payload = requests[d].tempFilePath
            /\ Lookup(processedImages, requests[d].filename) # requests[d].tempFilePath

====
